---- MODULE Spec2Model ----
(***************************************************************************)
(* Turbo Rally (src/turbo_rally.py): Vehicle, Track, Weather and Race.     *)
(*                                                                         *)
(* Python floats are modelled as exact rationals <<n, d>> with d > 0 and   *)
(* gcd(n, d) = 1, so the arithmetic of Race._lap_time is the arithmetic of *)
(* the reals.  A float division by zero raises ZeroDivisionError; it is    *)
(* the value ZeroDivisionError below and ends the call in progress.        *)
(*                                                                         *)
(* Two Race objects are built over one Track and one Weather object:       *)
(* Race(track, weather, laps) and Race(track, weather), the second with    *)
(* the constructor's default lap count.  The program is single-threaded:   *)
(* one run() call is in progress at a time and it is modelled statement by *)
(* statement.                                                              *)
(***************************************************************************)
EXTENDS Integers, Sequences, FiniteSets

VARIABLES
    garage,         \* the Vehicle objects callers pass to run()
    track,          \* the Track object both races hold
    weather,        \* the Weather object both races hold
    laps,           \* laps[r]: Race.laps
    leaderboard,    \* leaderboard[r]: Race.leaderboard, a dict name -> total
    pc,             \* position of the run() call in progress, or "idle"
    self,           \* the Race the call in progress runs on
    vehicle,        \* its argument
    times,          \* its local list of lap times
    lap,            \* its loop variable
    total_time,     \* its local total_time
    ndraws,         \* how many times it has called random.uniform
    draw,           \* the value random.uniform returned last
    stdout,         \* the lines it has printed, in order
    wrote,          \* whether it has executed the leaderboard store
    entry,          \* the leaderboard of its Race when it was called
    called,         \* called[r]: the names run() was called with on r
    returned,       \* returned[r]: name -> sum of the list last returned
    exc             \* the exception that ended the last call, or "none"

vars == <<garage, track, weather, laps, leaderboard, pc, self, vehicle, times,
          lap, total_time, ndraws, draw, stdout, wrote, entry, called, returned, exc>>

-----------------------------------------------------------------------------
(* Bounds of the model *)

MaxLaps == 2

-----------------------------------------------------------------------------
(* Exact rational arithmetic *)

Abs(x) == IF x < 0 THEN -x ELSE x

RECURSIVE GCD(_, _)
GCD(a, b) == IF b = 0 THEN a ELSE GCD(b, a % b)

\* n/d in lowest terms with a positive denominator (d # 0)
R(n, d) ==
    LET g == GCD(Abs(n), Abs(d))
        s == IF d < 0 THEN -1 ELSE 1
    IN  <<(s * n) \div g, (s * d) \div g>>

ZeroDivisionError == <<0, 0>>

RAdd(a, b) ==
    LET g == GCD(a[2], b[2])
    IN  R(a[1] * (b[2] \div g) + b[1] * (a[2] \div g), (a[2] \div g) * b[2])
RNeg(a) == <<-a[1], a[2]>>
RSub(a, b) == RAdd(a, RNeg(b))
RMul(a, b) ==
    LET x == R(a[1], b[2])
        y == R(b[1], a[2])
    IN  R(x[1] * y[1], x[2] * y[2])
RDiv(a, b) == IF b[1] = 0 THEN ZeroDivisionError ELSE RMul(a, R(b[2], b[1]))
RLess(a, b) == a[1] * b[2] < b[1] * a[2]
RLeq(a, b) == a[1] * b[2] <= b[1] * a[2]
RMax(a, b) == IF RLess(a, b) THEN b ELSE a

RECURSIVE RSum(_)
RSum(s) == IF s = <<>> THEN R(0, 1) ELSE RAdd(RSum(SubSeq(s, 1, Len(s) - 1)), s[Len(s)])

\* x in units of 1/scale, rounded to nearest, ties to even
Round(x, scale) ==
    LET ip == x[1] \div x[2]
        fr == x[1] % x[2]
        q  == (fr * scale) \div x[2]
        rm == (fr * scale) % x[2]
        up == IF 2 * rm > x[2] THEN 1
              ELSE IF 2 * rm = x[2] THEN q % 2 ELSE 0
    IN  ip * scale + q + up

\* format(x, ".2f"): the hundredths printed
Fmt2(x) == Round(x, 100)

-----------------------------------------------------------------------------
(* Vehicle, Track, Weather *)

Vehicle(name, speed, handling, acceleration) ==
    [name |-> name, speed |-> speed, handling |-> handling,
     acceleration |-> acceleration]

Track(name, terrain, length_km, obstacles) ==
    [name |-> name, terrain |-> terrain, length_km |-> length_km,
     obstacles |-> obstacles]

Weather(condition) == [condition |-> condition]

\* mutant: the two ratings are added and not averaged
performance_modifier_sum(v) == RAdd(v.handling, v.acceleration)

performance_modifier(v) == RDiv(RAdd(v.handling, v.acceleration), R(2, 1))

TERRAIN_EFFECT ==
    [t \in {"mud", "gravel", "sand"} |->
        CASE t = "mud" -> R(7, 10)
          [] t = "gravel" -> R(85, 100)
          [] t = "sand" -> R(8, 10)]

\* mutant: an unlisted terrain gets no speed at all
terrain_modifier_default_zero(t) ==
    IF t.terrain \in DOMAIN TERRAIN_EFFECT THEN TERRAIN_EFFECT[t.terrain]
    ELSE R(0, 1)

terrain_modifier(t) ==
    IF t.terrain \in DOMAIN TERRAIN_EFFECT THEN TERRAIN_EFFECT[t.terrain]
    ELSE R(1, 1)

WEATHER_EFFECT ==
    [c \in {"clear", "rain", "storm"} |->
        CASE c = "clear" -> R(1, 1)
          [] c = "rain" -> R(8, 10)
          [] c = "storm" -> R(7, 10)]

\* mutant: the storm's 0.7 mistyped as 1.7
traction_modifier_typo(w) ==
    IF w.condition = "storm" THEN R(17, 10)
    ELSE IF w.condition \in DOMAIN WEATHER_EFFECT THEN WEATHER_EFFECT[w.condition]
    ELSE R(1, 1)

traction_modifier(w) ==
    IF w.condition \in DOMAIN WEATHER_EFFECT THEN WEATHER_EFFECT[w.condition]
    ELSE R(1, 1)

-----------------------------------------------------------------------------
(* Race._lap_time, with the value d that random.uniform(0.5, 1.5) returns *)

\* speed: the vehicle's speed scaled by its, the track's and the weather's modifier
effective_speed(v, t, w) ==
    LET base_speed == RMul(v.speed, performance_modifier(v))
    IN  RMul(RMul(base_speed, terrain_modifier(t)), traction_modifier(w))

\* mutant: the draw is not scaled by the number of obstacles
obstacle_penalty_no_count(t, d) == d

obstacle_penalty(t, d) == RMul(R(Len(t.obstacles), 1), d)

\* mutant: no floor of 1
divisor_unclamped(v, t, w, d) ==
    RSub(effective_speed(v, t, w), obstacle_penalty(t, d))

\* the divisor of line 71
divisor(v, t, w, d) ==
    RMax(RSub(effective_speed(v, t, w), obstacle_penalty(t, d)), R(1, 1))

_lap_time(v, t, w, d) ==
    LET time_hours == RDiv(t.length_km, divisor(v, t, w, d))
    IN  IF time_hours = ZeroDivisionError THEN ZeroDivisionError
        ELSE RMul(time_hours, R(60, 1))

\* values random.uniform(0.5, 1.5) can return: the two ends of the range, between
\* which the lap time is monotone
Uniform == {R(1, 2), R(3, 2)}

-----------------------------------------------------------------------------
(* The objects the races are built from.  The unit test's fixture is the   *)
(* obstacle-free Test Track with the Test Car; the others are a game with   *)
(* obstacles on the track, two of them default_tracks() entries.  Speeds  *)
(* and ratings are chosen so that the numerator and the denominator of     *)
(* every exact total stay within 32 bits.                                  *)

TestCar == Vehicle("Test Car", R(140, 1), R(9, 10), R(8, 10))
Crawler == Vehicle("Crawler", R(3, 1), R(1, 2), R(1, 2))
Stalled == Vehicle("Stalled", R(0, 1), R(9, 10), R(8, 10))
Reversing == Vehicle("Crawler", R(20, 1), R(-1, 1), R(1, 2))

Sprinter == Vehicle("Sprinter", R(125, 1), R(9, 10), R(7, 10))
Plodder == Vehicle("Plodder", R(10, 1), R(1, 2), R(1, 2))

TestTrack == Track("Test Track", "gravel", R(1, 1), <<>>)
ForestTrail == Track("Forest Trail", "mud", R(5, 1), <<"log", "puddle", "rock">>)
DesertRun == Track("Desert Run", "sand", R(6, 1), <<"dune", "rock", "cactus">>)
CityLoop == Track("City Loop", "tarmac", R(2, 1), <<"cone">>)

Fixtures ==
    {[garage |-> {TestCar, Crawler, Stalled, Reversing}, track |-> TestTrack]}
    \cup {[garage |-> {Sprinter, Plodder}, track |-> t] :
            t \in {ForestTrail, DesertRun, CityLoop}}

Conditions == {"clear", "rain", "storm", "fog"}

Races == {1, 2}

\* Race.__init__'s default for laps
DefaultLaps == 1

\* no call in progress: no Race and no Vehicle is bound
NoVehicle == Vehicle("", R(0, 1), R(0, 1), R(0, 1))
NoDraw == R(0, 1)

EmptyDict == [n \in {} |-> R(0, 1)]

\* mutant: the total is added to the entry the name already has
setitem_accumulate(d, k, x) ==
    [n \in DOMAIN d \cup {k} |->
        IF n = k THEN (IF k \in DOMAIN d THEN RAdd(d[k], x) ELSE x) ELSE d[n]]

\* mutant: a total of zero (no lap was run) is not recorded
setitem_skip_zero(d, k, x) ==
    IF x = R(0, 1) THEN d
    ELSE [n \in DOMAIN d \cup {k} |-> IF n = k THEN x ELSE d[n]]

\* d[k] = x on a dict
setitem(d, k, x) == [n \in DOMAIN d \cup {k} |-> IF n = k THEN x ELSE d[n]]

\* mutant: range(1, n), one lap short
range_has_next_short(l, n) == l + 1 < n

\* range(1, n + 1) has a value after l
range_has_next(l, n) == l + 1 <= n

\* mutant: the lap index counts from 0
lap_line_zero_based(l, lap_time) ==
    [kind |-> "lap", lap |-> l - 1, minutes |-> Fmt2(lap_time)]

\* the two kinds of line run() prints
lap_line(l, lap_time) == [kind |-> "lap", lap |-> l, minutes |-> Fmt2(lap_time)]
total_line(t) == [kind |-> "total", lap |-> 0, minutes |-> Fmt2(t)]

-----------------------------------------------------------------------------
(* Race.__init__ for both races *)

Init ==
    /\ \E f \in Fixtures : garage = f.garage /\ track = f.track
    /\ \E c \in Conditions : weather = Weather(c)
    /\ \E n \in 0..MaxLaps : laps = [r \in Races |-> IF r = 1 THEN n ELSE DefaultLaps]
    /\ leaderboard = [r \in Races |-> EmptyDict]
    /\ pc = "idle"
    /\ self = 0
    /\ vehicle = NoVehicle
    /\ times = <<>>
    /\ lap = 0
    /\ total_time = R(0, 1)
    /\ ndraws = 0
    /\ draw = NoDraw
    /\ stdout = <<>>
    /\ wrote = FALSE
    /\ entry = EmptyDict
    /\ called = [r \in Races |-> {}]
    /\ returned = [r \in Races |-> EmptyDict]
    /\ exc = "none"

objects == <<garage, track, weather, laps>>

(* Race.run *)

\* a caller calls r.run(v): times = [] and the loop's range is set up
Call(r, v) ==
    /\ pc = "idle"
    /\ pc' = "for"
    /\ self' = r
    /\ vehicle' = v
    /\ times' = <<>>
    /\ lap' = 0
    /\ total_time' = R(0, 1)
    /\ ndraws' = 0
    /\ draw' = NoDraw
    /\ stdout' = <<>>
    /\ wrote' = FALSE
    /\ entry' = leaderboard[r]
    /\ called' = [called EXCEPT ![r] = @ \cup {v.name}]
    /\ exc' = "none"
    /\ UNCHANGED <<objects, leaderboard, returned>>

\* one iteration up to the print: the next lap index, one draw, the lap time, append
Lap(d) ==
    /\ pc = "for"
    /\ range_has_next(lap, laps[self])
    /\ LET lap_time == _lap_time(vehicle, track, weather, d)
       IN  IF lap_time = ZeroDivisionError
           THEN /\ pc' = "idle"
                /\ exc' = "ZeroDivisionError"
                /\ self' = 0
                /\ vehicle' = NoVehicle
                /\ times' = <<>>
                /\ lap' = 0
                /\ ndraws' = 0
                /\ draw' = NoDraw
                /\ stdout' = <<>>
                /\ entry' = EmptyDict
           ELSE /\ pc' = "print_lap"
                /\ exc' = exc
                /\ self' = self
                /\ vehicle' = vehicle
                /\ times' = Append(times, lap_time)
                /\ lap' = lap + 1
                /\ ndraws' = ndraws + 1
                /\ draw' = d
                /\ stdout' = stdout
                /\ entry' = entry
    /\ UNCHANGED <<objects, leaderboard, total_time, wrote, called, returned>>

\* print(f"Lap {lap}: {lap_time:.2f} minutes")
PrintLap ==
    /\ pc = "print_lap"
    /\ stdout' = Append(stdout, lap_line(lap, times[Len(times)]))
    /\ pc' = "for"
    /\ UNCHANGED <<objects, leaderboard, self, vehicle, times, lap, total_time,
                   ndraws, draw, wrote, entry, called, returned, exc>>

\* the range is exhausted; total_time = sum(times)
Sum ==
    /\ pc = "for"
    /\ ~range_has_next(lap, laps[self])
    /\ total_time' = RSum(times)
    /\ pc' = "print_total"
    /\ UNCHANGED <<objects, leaderboard, self, vehicle, times, lap, ndraws,
                   draw, stdout, wrote, entry, called, returned, exc>>

\* print(f"Total race time: {total_time:.2f} minutes\n")
PrintTotal ==
    /\ pc = "print_total"
    /\ stdout' = Append(stdout, total_line(total_time))
    /\ pc' = "store"
    /\ UNCHANGED <<objects, leaderboard, self, vehicle, times, lap, total_time,
                   ndraws, draw, wrote, entry, called, returned, exc>>

\* mutant: leaderboard is one dict of the class, shared by every Race
StoreTotalShared ==
    /\ pc = "store"
    /\ leaderboard' = [r \in Races |->
                         setitem(leaderboard[self], vehicle.name, total_time)]
    /\ wrote' = TRUE
    /\ pc' = "return"
    /\ UNCHANGED <<objects, self, vehicle, times, lap, total_time, ndraws,
                   draw, stdout, entry, called, returned, exc>>

\* self.leaderboard[vehicle.name] = total_time
StoreTotal ==
    /\ pc = "store"
    /\ leaderboard' = [leaderboard EXCEPT
                         ![self] = setitem(@, vehicle.name, total_time)]
    /\ wrote' = TRUE
    /\ pc' = "return"
    /\ UNCHANGED <<objects, self, vehicle, times, lap, total_time, ndraws,
                   draw, stdout, entry, called, returned, exc>>

\* return times: the call's frame is gone, the caller holds the list
Return ==
    /\ pc = "return"
    /\ returned' = [returned EXCEPT ![self] =
                        [n \in DOMAIN @ \cup {vehicle.name} |->
                            IF n = vehicle.name THEN RSum(times) ELSE @[n]]]
    /\ pc' = "idle"
    /\ self' = 0
    /\ vehicle' = NoVehicle
    /\ times' = <<>>
    /\ lap' = 0
    /\ total_time' = R(0, 1)
    /\ ndraws' = 0
    /\ draw' = NoDraw
    /\ stdout' = <<>>
    /\ wrote' = FALSE
    /\ entry' = EmptyDict
    /\ UNCHANGED <<objects, leaderboard, called, exc>>

Next ==
    \/ \E r \in Races, v \in garage : Call(r, v)
    \/ \E d \in Uniform : Lap(d)
    \/ PrintLap
    \/ Sum
    \/ PrintTotal
    \/ StoreTotal
    \/ Return

Spec == Init /\ [][Next]_vars

-----------------------------------------------------------------------------
(* Properties *)

Zero == R(0, 1)
One == R(1, 1)
Last(q) == q[Len(q)]
NumObstacles == Len(track.obstacles)

\* C1: after any sequence of run() calls the leaderboard's keys are the names
\* run() was called with, and each maps to the sum of the list the most recent
\* call for that name returned; when a call reaches its return statement the
\* entry of its vehicle's name is the sum of the list it is about to return,
\* whatever the entry was before.
C1_LeaderboardIsLastTotal ==
    /\ pc = "idle" =>
         \A r \in Races :
            /\ DOMAIN leaderboard[r] = called[r]
            /\ DOMAIN returned[r] = called[r]
            /\ \A n \in called[r] : leaderboard[r][n] = returned[r][n]
    /\ pc = "return" =>
         /\ DOMAIN leaderboard[self] = called[self]
         /\ leaderboard[self][vehicle.name] = RSum(times)
         /\ \A n \in called[self] \ {vehicle.name} :
               leaderboard[self][n] = returned[self][n]

\* a second call for a name has replaced the different total of an earlier one
C1_Witness ==
    /\ pc = "return"
    /\ vehicle.name \in DOMAIN returned[self]
    /\ returned[self][vehicle.name] # RSum(times)
    /\ leaderboard[self][vehicle.name] = RSum(times)
    /\ Cardinality(called[self]) = 2

\* C2: on a race of L >= 1 laps (the track's length is positive) the list run()
\* returns has exactly L lap times, each strictly positive, and the vehicle's
\* name is a key of the leaderboard at the return.
C2_ReturnsLPositiveTimes ==
    (pc = "return" /\ laps[self] >= 1 /\ RLess(Zero, track.length_km)) =>
        /\ Len(times) = laps[self]
        /\ \A i \in 1..Len(times) : RLess(Zero, times[i])
        /\ vehicle.name \in DOMAIN leaderboard[self]

C2_Witness ==
    /\ pc = "return"
    /\ laps[self] = MaxLaps
    /\ Len(times) = MaxLaps
    /\ NumObstacles > 0
    /\ vehicle.name \in DOMAIN leaderboard[self]

\* C3 as stated: run() on a race of 0 laps returns the empty list and leaves
\* the leaderboard as it was at the call.
C3_Original ==
    (pc = "return" /\ laps[self] = 0) =>
        /\ times = <<>>
        /\ leaderboard[self] = entry

\* C3, amended: run() on a race of 0 laps returns the empty list and stores a
\* total of 0 under the vehicle's name (adding the key or replacing its entry);
\* every other entry is as it was at the call.
C3_ZeroLapsStoresZero ==
    (pc = "return" /\ laps[self] = 0) =>
        /\ times = <<>>
        /\ ndraws = 0
        /\ DOMAIN leaderboard[self] = DOMAIN entry \cup {vehicle.name}
        /\ leaderboard[self][vehicle.name] = Zero
        /\ \A n \in DOMAIN entry \ {vehicle.name} : leaderboard[self][n] = entry[n]

\* the call has added a key that was not there
C3_Witness ==
    /\ pc = "return"
    /\ laps[self] = 0
    /\ vehicle.name \notin DOMAIN entry
    /\ vehicle.name \in DOMAIN leaderboard[self]

\* the raw speed left after the obstacles, before the floor of 1
RawSpeed(v, t, w, d) ==
    RSub(RMul(RMul(RMul(v.speed, RDiv(RAdd(v.handling, v.acceleration), R(2, 1))),
                   terrain_modifier(t)), traction_modifier(w)),
         RMul(R(Len(t.obstacles), 1), d))

\* C4: the divisor of every lap-time computation is at least 1, whatever the
\* vehicle's speed and ratings (zero and negative ones too), the number of
\* obstacles and the draw; so no division by zero occurs and every lap time is
\* a number, strictly positive and at most 60 * length_km minutes.
C4_DivisorAtLeastOne ==
    /\ exc = "none"
    /\ pc = "print_lap" =>
         /\ RLeq(One, divisor(vehicle, track, weather, draw))
         /\ Last(times) = RMul(RDiv(track.length_km,
                                    divisor(vehicle, track, weather, draw)), R(60, 1))
    /\ \A i \in 1..Len(times) :
         /\ times[i] # ZeroDivisionError
         /\ RLess(Zero, times[i])
         /\ RLeq(times[i], RMul(R(60, 1), track.length_km))

\* a lap was timed whose raw speed is exactly 0: only the floor keeps the
\* division defined
C4_Witness ==
    /\ pc = "print_lap"
    /\ RawSpeed(vehicle, track, weather, draw) = Zero
    /\ Last(times) = RMul(R(60, 1), track.length_km)

\* the laps whose line has been printed
PrintedLaps == IF pc = "print_lap" THEN lap - 1 ELSE lap

\* C5: within one run() call on a race of L laps the lap lines are printed with
\* the indices 1, 2, ..., L in this order, each after its lap time has been
\* appended and before the next lap time is computed; exactly one total line
\* follows the last lap line; and the leaderboard is stored to only after the
\* total line, never while laps are being run.
C5_EventOrder ==
    pc # "idle" =>
        /\ Len(times) = lap
        /\ lap <= laps[self]
        /\ \A i \in 1..PrintedLaps :
              stdout[i] = [kind |-> "lap", lap |-> i, minutes |-> Round(times[i], 100)]
        /\ pc \in {"for", "print_lap", "print_total"} =>
              /\ Len(stdout) = PrintedLaps
              /\ ~wrote
              /\ leaderboard[self] = entry
        /\ pc \in {"print_total", "store", "return"} => lap = laps[self]
        /\ pc \in {"store", "return"} =>
              /\ Len(stdout) = laps[self] + 1
              /\ Last(stdout) = [kind |-> "total", lap |-> 0,
                                 minutes |-> Round(RSum(times), 100)]
        /\ pc = "store" => ~wrote /\ leaderboard[self] = entry
        /\ pc = "return" => wrote /\ leaderboard[self][vehicle.name] = RSum(times)

\* a call of the most laps has printed every line and stored its total
C5_Witness ==
    /\ pc = "return"
    /\ laps[self] = MaxLaps
    /\ Len(stdout) = MaxLaps + 1
    /\ stdout[MaxLaps].lap = MaxLaps
    /\ wrote

\* the unit test's scenario, at the return of run()
Scenario ==
    /\ pc = "return"
    /\ vehicle = TestCar
    /\ track = TestTrack
    /\ weather = Weather("clear")
    /\ laps[self] = 1

\* (1.0 / (140 * 0.85 * 0.85 * 1.0)) * 60
ScenarioMinutes ==
    RMul(RDiv(One, RMul(RMul(RMul(R(140, 1), R(85, 100)), R(85, 100)), One)),
         R(60, 1))

\* C6 as stated: in the scenario the one lap time returned is
\* (1.0 / (140 * 0.85 * 0.85 * 1.0)) * 60 minutes, which is 0.499 to three
\* places, and leaderboard["Test Car"] is that value.
C6_Original ==
    Scenario =>
        /\ times = <<ScenarioMinutes>>
        /\ Round(times[1], 1000) = 499
        /\ leaderboard[self]["Test Car"] = ScenarioMinutes

\* C6, amended: in the scenario the one lap time returned is
\* (1.0 / (140 * 0.85 * 0.85 * 1.0)) * 60 minutes, which is 0.593 to three
\* places, whatever the draw, and leaderboard["Test Car"] is that value.
C6_ScenarioLapTime ==
    Scenario =>
        /\ times = <<ScenarioMinutes>>
        /\ Round(times[1], 1000) = 593
        /\ leaderboard[self]["Test Car"] = ScenarioMinutes

\* the scenario has run, with the largest draw
C6_Witness == Scenario /\ draw = R(3, 2) /\ Len(times) = 1

ClearLap(d) == _lap_time(vehicle, track, Weather("clear"), d)
StormLap(d) == _lap_time(vehicle, track, Weather("storm"), d)

\* C7: for one vehicle on one obstacle-free track, the lap time in a storm is
\* never smaller than in clear weather; it is strictly larger when the
\* clear-weather effective speed exceeds 1; the two are equal only when both
\* effective speeds are at most 1, where the floor sets both divisors to 1.
C7_StormNotFaster ==
    (pc = "print_lap" /\ NumObstacles = 0 /\ RLess(Zero, track.length_km)) =>
        /\ weather.condition = "clear" => Last(times) = ClearLap(draw)
        /\ weather.condition = "storm" => Last(times) = StormLap(draw)
        /\ \A d1, d2 \in Uniform :
              /\ RLeq(ClearLap(d1), StormLap(d2))
              /\ RLess(One, effective_speed(vehicle, track, Weather("clear")))
                    => RLess(ClearLap(d1), StormLap(d2))
              /\ ClearLap(d1) = StormLap(d2) =>
                    /\ RLeq(effective_speed(vehicle, track, Weather("clear")), One)
                    /\ RLeq(effective_speed(vehicle, track, Weather("storm")), One)

\* the scenario's car timed in a storm, slower than it would be in clear weather
C7_Witness ==
    /\ pc = "print_lap"
    /\ vehicle = TestCar
    /\ track = TestTrack
    /\ weather.condition = "storm"
    /\ RLess(ClearLap(draw), Last(times))

\* the tables of the specification
SpecTerrain(label) ==
    CASE label = "mud" -> R(7, 10)
      [] label = "gravel" -> R(85, 100)
      [] label = "sand" -> R(8, 10)
      [] OTHER -> One
SpecTraction(label) ==
    CASE label = "clear" -> One
      [] label = "rain" -> R(8, 10)
      [] label = "storm" -> R(7, 10)
      [] OTHER -> One
Labels == {"mud", "gravel", "sand", "clear", "rain", "storm", "tarmac", "fog",
           "Mud", "CLEAR", ""}

\* the lap time with the two modifiers given as numbers
LapTimeWith(v, t, tm, wm, d) ==
    LET speed == RMul(RMul(RMul(v.speed,
                     RDiv(RAdd(v.handling, v.acceleration), R(2, 1))), tm), wm)
        pen   == RMul(R(Len(t.obstacles), 1), d)
    IN  RMul(RDiv(t.length_km, RMax(RSub(speed, pen), One)), R(60, 1))

\* C8: terrain_modifier() is 0.7 for mud, 0.85 for gravel, 0.8 for sand and 1.0
\* for every other label; traction_modifier() is 1.0 for clear, 0.8 for rain,
\* 0.7 for storm and 1.0 for every other label; an unlisted label raises
\* nothing, and every lap time on such a track or in such weather is the lap
\* time computed with a modifier of 1.0.
C8_ModifierTables ==
    /\ exc = "none"
    /\ pc = "print_lap" =>
         /\ \A l \in Labels :
               /\ terrain_modifier(Track("t", l, One, <<>>)) = SpecTerrain(l)
               /\ traction_modifier(Weather(l)) = SpecTraction(l)
         /\ terrain_modifier(track) = SpecTerrain(track.terrain)
         /\ traction_modifier(weather) = SpecTraction(weather.condition)
         /\ Last(times) = LapTimeWith(vehicle, track, SpecTerrain(track.terrain),
                                      SpecTraction(weather.condition), draw)
         /\ track.terrain \notin {"mud", "gravel", "sand"} =>
               Last(times) = LapTimeWith(vehicle, track, One,
                                         SpecTraction(weather.condition), draw)
         /\ weather.condition \notin {"clear", "rain", "storm"} =>
               Last(times) = LapTimeWith(vehicle, track, SpecTerrain(track.terrain),
                                         One, draw)

\* a lap timed on an unlisted terrain in unlisted weather
C8_Witness ==
    /\ pc = "print_lap"
    /\ track.terrain = "tarmac"
    /\ weather.condition = "fog"
    /\ Last(times) = LapTimeWith(vehicle, track, One, One, draw)
    /\ RLess(Last(times), RMul(R(60, 1), track.length_km))

\* C9: every lap-time computation makes one draw d in [0.5, 1.5] and its
\* penalty is (number of obstacles) * d; a call has made as many draws as it
\* has lap times, L when it returns; the penalty on n obstacles lies in
\* [0.5 * n, 1.5 * n] and is 0 when n = 0, and then all lap times of the call
\* are equal.
C9_OneDrawPerLap ==
    pc # "idle" =>
        /\ ndraws = Len(times)
        /\ pc = "return" => ndraws = laps[self]
        /\ pc = "print_lap" =>
              /\ RLeq(R(1, 2), draw) /\ RLeq(draw, R(3, 2))
              /\ obstacle_penalty(track, draw) = RMul(R(NumObstacles, 1), draw)
              /\ RLeq(R(NumObstacles, 2), obstacle_penalty(track, draw))
              /\ RLeq(obstacle_penalty(track, draw), R(3 * NumObstacles, 2))
              /\ NumObstacles = 0 => obstacle_penalty(track, draw) = Zero
              /\ Last(times) =
                    RMul(RDiv(track.length_km,
                              RMax(RawSpeed(vehicle, track, weather, draw), One)),
                         R(60, 1))
        /\ NumObstacles = 0 => \A i, j \in 1..Len(times) : times[i] = times[j]

\* two laps over three obstacles, two draws, two different lap times
C9_Witness ==
    /\ pc = "return"
    /\ ndraws = 2
    /\ NumObstacles = 3
    /\ Len(times) = 2
    /\ times[1] # times[2]

\* C10: a step of run() changes nothing but the entry of its vehicle's name in
\* the leaderboard of its own Race: the other entries of that leaderboard, the
\* leaderboard of the other Race (which holds the same Track and Weather), the
\* track, the weather, both lap counts, the vehicles and the argument of the
\* call in progress stay as they are.
C10_Frame ==
    [][ /\ garage' = garage
        /\ track' = track
        /\ weather' = weather
        /\ laps' = laps
        /\ (pc # "idle" /\ pc' # "idle") => (vehicle' = vehicle /\ self' = self)
        /\ \A r \in Races :
              leaderboard'[r] # leaderboard[r] =>
                 /\ pc = "store"
                 /\ r = self
                 /\ DOMAIN leaderboard'[r] = DOMAIN leaderboard[r] \cup {vehicle.name}
                 /\ \A n \in DOMAIN leaderboard[r] \ {vehicle.name} :
                       leaderboard'[r][n] = leaderboard[r][n]
      ]_vars

\* a call has replaced its entry beside another name's entry, and the other
\* Race has a leaderboard of its own that differs
C10_Witness ==
    /\ pc = "return"
    /\ vehicle.name \in DOMAIN entry
    /\ entry[vehicle.name] # leaderboard[self][vehicle.name]
    /\ \E n \in DOMAIN entry : n # vehicle.name /\ leaderboard[self][n] = entry[n]
    /\ \E r \in Races : r # self /\ leaderboard[r] # EmptyDict
                         /\ leaderboard[r] # leaderboard[self]

====
